---- MODULE Spec2Model ----
(***************************************************************************)
(* Model of saulify/sitespec.py: the spec-file tokenizer parse_specfile    *)
(* and the two builders load_rules and load_testcases.                     *)
(*                                                                         *)
(* A Python str is a sequence of one-character strings.  Python values     *)
(* stored in containers carry their runtime type as a tag:                 *)
(*   [t |-> "str", v |-> s], [t |-> "tuple", v |-> <<a, b>>],              *)
(*   [t |-> "list", v |-> <<items>>], [t |-> "bool", v |-> b].             *)
(* A dict is a function from its keys (strs) to tagged values.             *)
(***************************************************************************)
EXTENDS Integers, Sequences, FiniteSets, TLC

\* ---------------------------------------------------------------- bounds
\* Greatest number of characters of the text in the tokenizer specification.
MaxChars == 5
\* Greatest number of lines of the file in the load_rules specification.
MaxRulesLines == 3
\* Greatest number of lines of the file in the load_testcases specification.
MaxTestsLines == 4
\* Greatest number of lines of the first file in the specification of several calls.
MaxMixLines == 2
\* Greatest number of calls in the specification of several calls.
MaxCalls == 2

\* ------------------------------------------------------- string literals
L_test_url ==
    <<"t", "e", "s", "t", "_", "u", "r", "l">>
P_test_ ==
    <<"t", "e", "s", "t", "_">>
L_find_string ==
    <<"f", "i", "n", "d", "_", "s", "t", "r", "i", "n", "g">>
L_replace_string ==
    <<"r", "e", "p", "l", "a", "c", "e", "_", "s", "t", "r", "i", "n", "g">>
K_find_replace ==
    <<"f", "i", "n", "d", "_", "r", "e", "p", "l", "a", "c", "e">>
L_prune ==
    <<"p", "r", "u", "n", "e">>
S_yes ==
    <<"y", "e", "s">>
S_no ==
    <<"n", "o">>

\* ------------------------------------------------------------ str methods
\* Characters str.strip() removes.
Whitespace == {" ", "\t"}

\* Index of the first character of s that is in S, Len(s) + 1 when there is none.
FirstIdx(s, S) ==
    IF \E i \in 1..Len(s) : s[i] \in S
    THEN CHOOSE i \in 1..Len(s) : s[i] \in S /\ \A j \in 1..(i - 1) : s[j] \notin S
    ELSE Len(s) + 1

\* Index of the last character of s that is not in S, 0 when there is none.
LastIdxNotIn(s, S) ==
    IF \E i \in 1..Len(s) : s[i] \notin S
    THEN CHOOSE i \in 1..Len(s) : s[i] \notin S /\ \A j \in (i + 1)..Len(s) : s[j] \in S
    ELSE 0

\* Index of the first character of s that is not in S, Len(s) + 1 when there is none.
FirstIdxNotIn(s, S) ==
    IF \E i \in 1..Len(s) : s[i] \notin S
    THEN CHOOSE i \in 1..Len(s) : s[i] \notin S /\ \A j \in 1..(i - 1) : s[j] \in S
    ELSE Len(s) + 1

\* str.strip()
strip(s) == SubSeq(s, FirstIdxNotIn(s, Whitespace), LastIdxNotIn(s, Whitespace))

\* str.startswith(prefix)
startswith(s, prefix) ==
    /\ Len(s) >= Len(prefix)
    /\ SubSeq(s, 1, Len(prefix)) = prefix

\* str.splitlines(), for the line boundary "\n"
RECURSIVE splitlines(_)
splitlines(s) ==
    IF s = <<>> THEN <<>>
    ELSE LET i == FirstIdx(s, {"\n"})
         IN  IF i > Len(s) THEN <<s>>
             ELSE <<SubSeq(s, 1, i - 1)>> \o splitlines(SubSeq(s, i + 1, Len(s)))

\* ---------------------------------------------------------- the line regex
\* r = re.compile("(?P<label>[^#:]+):(?P<content>[^#]+)"), r.match(t):
\* anchored at the start of t, both groups greedy and of length >= 1.
\* End (exclusive index of the last character + 1) of the group label.
label_end(t) == FirstIdx(t, {"#", ":"})

\* content_end for a group content that excludes ":" as well: [^#:]+
content_end_colon(t) ==
    LET rest == SubSeq(t, label_end(t) + 1, Len(t))
    IN  label_end(t) + FirstIdx(rest, {"#", ":"})

\* End of the group content: the first "#" after the separator, or the end of t.
content_end(t) ==
    LET rest == SubSeq(t, label_end(t) + 1, Len(t))
    IN  label_end(t) + FirstIdx(rest, {"#"})

\* m is not None
r_match(t) ==
    /\ label_end(t) >= 2
    /\ label_end(t) <= Len(t)
    /\ t[label_end(t)] = ":"
    /\ content_end(t) >= label_end(t) + 2

\* m.group("label")
group_label(t) == SubSeq(t, 1, label_end(t) - 1)

\* m.group("content")
group_content(t) == SubSeq(t, label_end(t) + 1, content_end(t) - 1)

\* The directive parse_specfile yields for a matching line t.
directive(t) == <<strip(group_label(t)), strip(group_content(t))>>

\* list(parse_specfile(f)) for the lines ls: the whole directive stream.
RECURSIVE stream(_)
stream(ls) ==
    IF ls = <<>> THEN <<>>
    ELSE (IF r_match(Head(ls)) THEN <<directive(Head(ls))>> ELSE <<>>) \o stream(Tail(ls))

\* ------------------------------------------------------------ Python values
None == <<"None">>
Str(s) == [t |-> "str", v |-> s]
Tuple(a, b) == [t |-> "tuple", v |-> <<a, b>>]
List(xs) == [t |-> "list", v |-> xs]
Bool(b) == [t |-> "bool", v |-> b]

\* {} and collections.defaultdict(list) at construction
EmptyDict == [k \in {} |-> List(<<>>)]

\* d[k] = val
setitem(d, k, val) == [x \in (DOMAIN d) \cup {k} |-> IF x = k THEN val ELSE d[x]]

\* d[k] of a defaultdict(list): the stored value, a new empty list on a miss
getitem(d, k) == IF k \in DOMAIN d THEN d[k] ELSE List(<<>>)

\* d[k].append(item) of a defaultdict(list)
append(d, k, item) == setitem(d, k, List(Append(getitem(d, k).v, item)))

\* -------------------------------------------------------------------- state
VARIABLES
    f_text,       \* the characters of the file behind the file object f
    f_pos,        \* f's read position: the number of characters already read
    pc,           \* "idle", or the function called: "parse", "rules", "tests"
    lines,        \* parse_specfile: f.read().splitlines()
    pos,          \* parse_specfile: index in lines of the next line t of the loop
    directives,   \* the (label, content) pairs parse_specfile has yielded so far
    find_string,  \* load_rules: the local find_string
    rules,        \* load_rules: the local rules
    cases,        \* load_testcases: the local cases
    outcome,      \* "none" while running, then "returned" or "raised"
    ret,          \* the value returned, once outcome = "returned"
    done          \* the caller's record of the calls that finished before this one

vars == <<f_text, f_pos, pc, lines, pos, directives, find_string, rules, cases, outcome, ret, done>>

\* f.read(): the characters from the read position to the end of the file
f_read == SubSeq(f_text, f_pos + 1, Len(f_text))

\* The first resumption of the generator parse_specfile(f): line 29 reads the file.
generator_start ==
    /\ lines' = splitlines(f_read)
    /\ f_pos' = Len(f_text)
    /\ pos' = 1
    /\ directives' = <<>>
    /\ UNCHANGED f_text

\* generator_skip that leaves the loop at the first line without a match: break
generator_skip_break ==
    /\ pos <= Len(lines)
    /\ ~r_match(lines[pos])
    /\ pos' = Len(lines) + 1
    /\ UNCHANGED <<f_text, f_pos, lines, directives>>

\* The loop of line 29 takes a line the regex does not match: nothing is yielded.
generator_skip ==
    /\ pos <= Len(lines)
    /\ ~r_match(lines[pos])
    /\ pos' = pos + 1
    /\ UNCHANGED <<f_text, f_pos, lines, directives>>

\* The loop of line 29 takes a line the regex matches and yields its directive.
generator_yield ==
    /\ pos <= Len(lines)
    /\ r_match(lines[pos])
    /\ pos' = pos + 1
    /\ directives' = Append(directives, directive(lines[pos]))
    /\ UNCHANGED <<f_text, f_pos, lines>>

\* The loop of line 29 is over: the generator is exhausted.
generator_exhausted ==
    /\ pos > Len(lines)
    /\ UNCHANGED <<f_text, f_pos, lines, pos, directives>>

\* -------------------------------------------------- parse_specfile, iterated
parse_specfile_Start ==
    /\ pc = "idle"
    /\ generator_start
    /\ pc' = "parse"
    /\ outcome' = "none"
    /\ UNCHANGED <<find_string, rules, cases, ret, done>>

parse_specfile_Yield ==
    /\ pc = "parse"
    /\ outcome = "none"
    /\ generator_yield
    /\ UNCHANGED <<pc, find_string, rules, cases, outcome, ret, done>>

parse_specfile_Skip ==
    /\ pc = "parse"
    /\ outcome = "none"
    /\ generator_skip
    /\ UNCHANGED <<pc, find_string, rules, cases, outcome, ret, done>>

parse_specfile_Stop ==
    /\ pc = "parse"
    /\ outcome = "none"
    /\ generator_exhausted
    /\ outcome' = "returned"
    /\ ret' = directives
    /\ UNCHANGED <<pc, find_string, rules, cases, done>>

\* ------------------------------------------------------------ load_testcases
\* open_case with the new case put first: cases.insert(0, case)
open_case_first(cs, label, content) ==
    <<setitem(EmptyDict, label, Str(content))>> \o cs

\* open_case that stores the content like any other test directive:
\* case[label].append(content)
open_case_append(cs, label, content) ==
    Append(cs, append(EmptyDict, label, Str(content)))

\* Lines 56-58: open a new case holding the content under label, append it to cases.
open_case(cs, label, content) ==
    Append(cs, setitem(EmptyDict, label, Str(content)))

\* raise_no_case with the directive skipped instead: continue
raise_no_case_skip(cs) == [cases |-> cs, raised |-> FALSE]

\* Line 61: raise Exception("Invalid spec file")
raise_no_case(cs) == [cases |-> cs, raised |-> TRUE]

\* opencase taken from the front: cases[0]
opencase_first(cs) == 1

\* Line 62: the index of opencase = cases[-1]
opencase(cs) == Len(cs)

\* load_testcases_body with a plain else for the elif of line 59: every
\* directive other than test_url goes to the open case.
load_testcases_body_else(cs, label, content) ==
    IF label = L_test_url
    THEN [cases |-> open_case(cs, label, content), raised |-> FALSE]
    ELSE IF cs = <<>>
         THEN raise_no_case(cs)
         ELSE [cases |-> [cs EXCEPT ![opencase(cs)] = append(cs[opencase(cs)], label, Str(content))],
               raised |-> FALSE]

\* One pass of the loop body, lines 55-63, on the directive (label, content).
load_testcases_body(cs, label, content) ==
    IF label = L_test_url
    THEN [cases |-> open_case(cs, label, content), raised |-> FALSE]
    ELSE IF startswith(label, P_test_)
    THEN IF cs = <<>>
         THEN raise_no_case(cs)
         ELSE [cases |-> [cs EXCEPT ![opencase(cs)] = append(cs[opencase(cs)], label, Str(content))],
               raised |-> FALSE]
    ELSE [cases |-> cs, raised |-> FALSE]

\* The loop of lines 54-63 from the local cs over the directives ds, and the
\* return of line 65: what the call comes to.
RECURSIVE tests_loop(_, _)
tests_loop(cs, ds) ==
    IF ds = <<>> THEN [outcome |-> "returned", value |-> cs]
    ELSE LET b == load_testcases_body(cs, Head(ds)[1], Head(ds)[2])
         IN  IF b.raised THEN [outcome |-> "raised", value |-> None]
             ELSE tests_loop(b.cases, Tail(ds))

\* load_testcases on a source whose directive stream is ds, lines 52-65.
load_testcases_of(ds) == tests_loop(<<>>, ds)

load_testcases_Call ==
    /\ pc = "idle"
    /\ cases' = <<>>
    /\ generator_start
    /\ pc' = "tests"
    /\ outcome' = "none"
    /\ UNCHANGED <<find_string, rules, ret, done>>

load_testcases_Skip ==
    /\ pc = "tests"
    /\ outcome = "none"
    /\ generator_skip
    /\ UNCHANGED <<pc, find_string, rules, cases, outcome, ret, done>>

load_testcases_Directive ==
    /\ pc = "tests"
    /\ outcome = "none"
    /\ generator_yield
    /\ LET d == directive(lines[pos])
           b == load_testcases_body(cases, d[1], d[2])
       IN  /\ cases' = b.cases
           /\ outcome' = IF b.raised THEN "raised" ELSE outcome
    /\ UNCHANGED <<pc, find_string, rules, ret, done>>

load_testcases_Return ==
    /\ pc = "tests"
    /\ outcome = "none"
    /\ generator_exhausted
    /\ outcome' = "returned"
    /\ ret' = cases
    /\ UNCHANGED <<pc, find_string, rules, cases, done>>

\* ---------------------------------------------------------------- load_rules
boolean_props == {L_prune}

\* not find_string
falsy(x) == x = None \/ x = <<>>

\* find_replace_item with the two contents swapped: (content, find_string)
find_replace_item_swapped(fs, content) == Tuple(content, fs)

\* Line 107: the item (find_string, content)
find_replace_item(fs, content) == Tuple(fs, content)

\* set_boolean that keeps a value already stored: rules.setdefault(label, b)
set_boolean_default(rs, label, b) ==
    IF label \in DOMAIN rs THEN rs ELSE setitem(rs, label, Bool(b))

\* Lines 111 and 113: rules[label] = True, rules[label] = False
set_boolean(rs, label, b) == setitem(rs, label, Bool(b))

\* raise_invalid_boolean with the directive skipped instead: continue
raise_invalid_boolean_skip(rs, fs) == [rules |-> rs, find_string |-> fs, raised |-> FALSE]

\* Line 115: raise Exception("Invalid spec file")
raise_invalid_boolean(rs, fs) == [rules |-> rs, find_string |-> fs, raised |-> TRUE]

\* load_rules_body that skips only the label test_url: label == "test_url"
load_rules_body_test_url_only(rs, fs, label, content) ==
    IF label = L_test_url
    THEN [rules |-> rs, find_string |-> fs, raised |-> FALSE]
    ELSE IF label = L_find_string
    THEN [rules |-> rs, find_string |-> content, raised |-> FALSE]
    ELSE IF label = L_replace_string
    THEN IF falsy(fs)
         THEN [rules |-> rs, find_string |-> fs, raised |-> TRUE]
         ELSE [rules |-> append(rs, K_find_replace, find_replace_item(fs, content)),
               find_string |-> fs, raised |-> FALSE]
    ELSE IF label \in boolean_props
    THEN IF content = S_yes
         THEN [rules |-> set_boolean(rs, label, TRUE), find_string |-> fs, raised |-> FALSE]
         ELSE IF content = S_no
         THEN [rules |-> set_boolean(rs, label, FALSE), find_string |-> fs, raised |-> FALSE]
         ELSE raise_invalid_boolean(rs, fs)
    ELSE [rules |-> append(rs, label, Str(content)), find_string |-> fs, raised |-> FALSE]

\* load_rules_body that looks rules["find_replace"] up on a find_string
\* directive: the defaultdict stores an empty list on the miss.
load_rules_body_lookup(rs, fs, label, content) ==
    IF startswith(label, P_test_)
    THEN [rules |-> rs, find_string |-> fs, raised |-> FALSE]
    ELSE IF label = L_find_string
    THEN [rules |-> setitem(rs, K_find_replace, getitem(rs, K_find_replace)),
          find_string |-> content, raised |-> FALSE]
    ELSE IF label = L_replace_string
    THEN IF falsy(fs)
         THEN [rules |-> rs, find_string |-> fs, raised |-> TRUE]
         ELSE [rules |-> append(rs, K_find_replace, find_replace_item(fs, content)),
               find_string |-> fs, raised |-> FALSE]
    ELSE IF label \in boolean_props
    THEN IF content = S_yes
         THEN [rules |-> set_boolean(rs, label, TRUE), find_string |-> fs, raised |-> FALSE]
         ELSE IF content = S_no
         THEN [rules |-> set_boolean(rs, label, FALSE), find_string |-> fs, raised |-> FALSE]
         ELSE raise_invalid_boolean(rs, fs)
    ELSE [rules |-> append(rs, label, Str(content)), find_string |-> fs, raised |-> FALSE]

\* One pass of the loop body, lines 98-118, on the directive (label, content).
load_rules_body(rs, fs, label, content) ==
    IF startswith(label, P_test_)
    THEN [rules |-> rs, find_string |-> fs, raised |-> FALSE]
    ELSE IF label = L_find_string
    THEN [rules |-> rs, find_string |-> content, raised |-> FALSE]
    ELSE IF label = L_replace_string
    THEN IF falsy(fs)
         THEN [rules |-> rs, find_string |-> fs, raised |-> TRUE]
         ELSE [rules |-> append(rs, K_find_replace, find_replace_item(fs, content)),
               find_string |-> fs, raised |-> FALSE]
    ELSE IF label \in boolean_props
    THEN IF content = S_yes
         THEN [rules |-> set_boolean(rs, label, TRUE), find_string |-> fs, raised |-> FALSE]
         ELSE IF content = S_no
         THEN [rules |-> set_boolean(rs, label, FALSE), find_string |-> fs, raised |-> FALSE]
         ELSE raise_invalid_boolean(rs, fs)
    ELSE [rules |-> append(rs, label, Str(content)), find_string |-> fs, raised |-> FALSE]

\* The loop of lines 96-118 from the locals rs, fs over the directives ds, and
\* the return of line 120: what the call comes to.
RECURSIVE rules_loop(_, _, _)
rules_loop(rs, fs, ds) ==
    IF ds = <<>> THEN [outcome |-> "returned", value |-> rs]
    ELSE LET b == load_rules_body(rs, fs, Head(ds)[1], Head(ds)[2])
         IN  IF b.raised THEN [outcome |-> "raised", value |-> None]
             ELSE rules_loop(b.rules, b.find_string, Tail(ds))

\* load_rules on a source whose directive stream is ds, lines 91-120.
load_rules_of(ds) == rules_loop(EmptyDict, None, ds)

\* load_rules_Call with rules and find_string kept from call to call, as
\* module-level names or mutable default arguments are.
load_rules_Call_kept ==
    /\ pc = "idle"
    /\ generator_start
    /\ pc' = "rules"
    /\ outcome' = "none"
    /\ UNCHANGED <<rules, find_string, cases, ret, done>>

load_rules_Call ==
    /\ pc = "idle"
    /\ rules' = EmptyDict
    /\ find_string' = None
    /\ generator_start
    /\ pc' = "rules"
    /\ outcome' = "none"
    /\ UNCHANGED <<cases, ret, done>>

load_rules_Skip ==
    /\ pc = "rules"
    /\ outcome = "none"
    /\ generator_skip
    /\ UNCHANGED <<pc, find_string, rules, cases, outcome, ret, done>>

\* load_rules_Directive that hands back what it has when the body raises:
\* except Exception: return rules
load_rules_Directive_partial ==
    /\ pc = "rules"
    /\ outcome = "none"
    /\ generator_yield
    /\ LET d == directive(lines[pos])
           b == load_rules_body(rules, find_string, d[1], d[2])
       IN  /\ rules' = b.rules
           /\ find_string' = b.find_string
           /\ outcome' = IF b.raised THEN "raised" ELSE outcome
           /\ ret' = IF b.raised THEN b.rules ELSE ret
    /\ UNCHANGED <<pc, cases, done>>

load_rules_Directive ==
    /\ pc = "rules"
    /\ outcome = "none"
    /\ generator_yield
    /\ LET d == directive(lines[pos])
           b == load_rules_body(rules, find_string, d[1], d[2])
       IN  /\ rules' = b.rules
           /\ find_string' = b.find_string
           /\ outcome' = IF b.raised THEN "raised" ELSE outcome
    /\ UNCHANGED <<pc, cases, ret, done>>

load_rules_Return ==
    /\ pc = "rules"
    /\ outcome = "none"
    /\ generator_exhausted
    /\ outcome' = "returned"
    /\ ret' = rules
    /\ UNCHANGED <<pc, find_string, rules, cases, done>>

\* ------------------------------------------------------------------ caller
\* A call has finished: it returned or raised.
Finished == pc # "idle" /\ outcome # "none"

\* What the caller has seen of the finished call: the function, the text of
\* the file, the lines the call read from it, the directives the call was
\* given, what the call came to, and whether the caller passes the same file
\* object to the next call.
finished_call(same_file) ==
    [fn |-> pc, text |-> f_text, read |-> lines, directives |-> directives,
     outcome |-> outcome, value |-> IF outcome = "returned" THEN ret ELSE None,
     same_file |-> same_file]

\* ------------------------------------------------------------------- inputs
\* Labels of the input files besides the ones the code names.
L_strip ==
    <<"s", "t", "r", "i", "p">>
L_test_contains ==
    <<"t", "e", "s", "t", "_", "c", "o", "n", "t", "a", "i", "n", "s">>

\* The text "label:content" of one line.
line(label, content) == label \o <<":">> \o content

\* "\n".join(ls)
RECURSIVE join(_)
join(ls) ==
    IF ls = <<>> THEN <<>>
    ELSE IF Len(ls) = 1 THEN ls[1]
    ELSE ls[1] \o <<"\n">> \o join(Tail(ls))

\* All sequences of at most n elements of S.
SeqsUpTo(S, n) == UNION {[1..k -> S] : k \in 0..n}

\* Characters of the texts of the tokenizer specification.
TokAlphabet == {" ", ":", "#", "a", "\n"}

\* Lines of the files of the load_rules specification.
RulesLines ==
    { line(L_find_string, <<"a">>), line(L_find_string, <<"b">>), line(L_find_string, <<" ">>),
      line(L_replace_string, <<"a">>),
      line(L_prune, S_yes), line(L_prune, S_no), line(L_prune, <<"a">>),
      line(L_strip, <<"a">>), line(L_strip, <<"b">>),
      line(K_find_replace, <<"a">>),
      line(L_test_url, <<"a">>), line(L_test_contains, <<"a">>),
      <<"#">> }

\* Lines of the files of the load_testcases specification.
TestsLines ==
    { line(L_test_url, <<"a">>), line(L_test_url, <<"b">>),
      line(L_test_contains, <<"a">>), line(L_test_contains, <<"b">>),
      line(P_test_, <<"a">>),
      line(L_replace_string, <<"a">>), line(L_prune, <<"a">>),
      <<"#">> }

\* Lines of the files of the specification of several calls.
MixLines ==
    { line(L_find_string, <<"a">>), line(L_replace_string, <<"a">>), line(L_prune, <<"a">>),
      line(L_strip, <<"a">>),
      line(L_test_url, <<"a">>), line(L_test_contains, <<"a">>),
      <<"#">> }

\* Texts of the other files a caller opens for a later call.
OtherTexts == {line(L_replace_string, <<"a">>), line(L_test_contains, <<"a">>)}

\* The state before any call, for the file text.
InitWith(text) ==
    /\ f_text = text
    /\ f_pos = 0
    /\ pc = "idle"
    /\ lines = <<>>
    /\ pos = 1
    /\ directives = <<>>
    /\ find_string = None
    /\ rules = EmptyDict
    /\ cases = <<>>
    /\ outcome = "none"
    /\ ret = <<>>
    /\ done = <<>>

\* ----------------------------------------------------------- specifications
\* parse_specfile iterated to exhaustion over every text of at most MaxChars characters.
InitTok == \E text \in SeqsUpTo(TokAlphabet, MaxChars) : InitWith(text)
NextTok ==
    \/ parse_specfile_Start
    \/ parse_specfile_Yield
    \/ parse_specfile_Skip
    \/ parse_specfile_Stop
SpecTok == InitTok /\ [][NextTok]_vars

\* load_rules on every file of at most MaxRulesLines lines of RulesLines.
InitRules == \E ls \in SeqsUpTo(RulesLines, MaxRulesLines) : InitWith(join(ls))
NextRules ==
    \/ load_rules_Call
    \/ load_rules_Skip
    \/ load_rules_Directive
    \/ load_rules_Return
SpecRules == InitRules /\ [][NextRules]_vars

\* load_testcases on every file of at most MaxTestsLines lines of TestsLines.
InitTests == \E ls \in SeqsUpTo(TestsLines, MaxTestsLines) : InitWith(join(ls))
NextTests ==
    \/ load_testcases_Call
    \/ load_testcases_Skip
    \/ load_testcases_Directive
    \/ load_testcases_Return
SpecTests == InitTests /\ [][NextTests]_vars

\* The caller goes on to another call with the same file object f.
caller_same_file ==
    /\ Finished
    /\ Len(done) + 1 < MaxCalls
    /\ done' = Append(done, finished_call(TRUE))
    /\ pc' = "idle"
    /\ UNCHANGED <<f_text, f_pos, lines, pos, directives, find_string, rules, cases, outcome, ret>>

\* The caller goes on to another call with a file object newly opened, on the
\* same text or on another one.
caller_open_file ==
    /\ Finished
    /\ Len(done) + 1 < MaxCalls
    /\ done' = Append(done, finished_call(FALSE))
    /\ pc' = "idle"
    /\ \E text \in {f_text} \cup OtherTexts : f_text' = text
    /\ f_pos' = 0
    /\ UNCHANGED <<lines, pos, directives, find_string, rules, cases, outcome, ret>>

\* Up to MaxCalls calls of load_rules and load_testcases, the first on any
\* file of at most MaxMixLines lines of MixLines.
Init == \E ls \in SeqsUpTo(MixLines, MaxMixLines) : InitWith(join(ls))
Next ==
    \/ load_rules_Call
    \/ load_rules_Skip
    \/ load_rules_Directive
    \/ load_rules_Return
    \/ load_testcases_Call
    \/ load_testcases_Skip
    \/ load_testcases_Directive
    \/ load_testcases_Return
    \/ caller_same_file
    \/ caller_open_file
Spec == Init /\ [][Next]_vars

\* ------------------------------------------------- the stream, described
\* Indexes of the directives of ds that carry the label.
Labelled(ds, label) == {i \in 1..Len(ds) : ds[i][1] = label}

\* Indexes of the directives of ds whose label starts with test_.
Tests(ds) == {i \in 1..Len(ds) : startswith(ds[i][1], P_test_)}

\* The k-th smallest element of the set I of indexes.
Nth(I, k) == CHOOSE i \in I : Cardinality({j \in I : j < i}) = k - 1

\* The elements of I in increasing order.
Sorted(I) == [k \in 1..Cardinality(I) |-> Nth(I, k)]

\* The greatest element of the nonempty set I of indexes.
Last(I) == CHOOSE i \in I : \A j \in I : j <= i

\* load_rules has returned / load_testcases has returned.
RulesReturned == pc = "rules" /\ outcome = "returned"
TestsReturned == pc = "tests" /\ outcome = "returned"

\* The call raised on the i-th directive of the stream: the last one yielded.
RaisedAt(i) == outcome = "raised" /\ i = Len(directives)

\* --------------------------------------------------------------------- C1
\* C1 (as claimed): in load_rules a replace_string directive raises exactly
\* when no find_string directive stands earlier in the stream.
C1_ReplaceFailsIffNoEarlierFind ==
    pc = "rules" =>
        \A i \in Labelled(directives, L_replace_string) :
            RaisedAt(i) <=> ~(\E j \in Labelled(directives, L_find_string) : j < i)

\* --------------------------------------------------------------------- C2
\* The (find, replace) tuples stored under find_replace, in list order.
Pairs(d) ==
    IF K_find_replace \in DOMAIN d
    THEN SelectSeq(d[K_find_replace].v, LAMBDA x : x.t = "tuple")
    ELSE <<>>

\* Content of the most recent find_string directive before the i-th directive.
LastFind(ds, i) == ds[Last({j \in Labelled(ds, L_find_string) : j < i})][2]

ListOf(x, tag) == x.t = "list" /\ \A i \in 1..Len(x.v) : x.v[i].t = tag

\* C3 (as claimed): in the mapping load_rules returns, the value under
\* find_replace is a list of tuples only, the value under a boolean property
\* is a boolean, and the value under every other key is a list of strs only.
C3_ShapeFixedByKey ==
    RulesReturned =>
        \A k \in DOMAIN ret :
            IF k = K_find_replace THEN ListOf(ret[k], "tuple")
            ELSE IF k \in boolean_props THEN ret[k].t = "bool"
            ELSE ListOf(ret[k], "str")

\* --------------------------------------------------------------------- C4
\* s has a character that is not whitespace.
NonBlank(s) == \E i \in 1..Len(s) : s[i] \notin Whitespace

\* C4 (as claimed): every directive the tokenizer yields has a label and a
\* content with at least one non-whitespace character each.
C4_DirectivesNonBlank ==
    \A i \in 1..Len(directives) :
        NonBlank(directives[i][1]) /\ NonBlank(directives[i][2])

\* --------------------------------------------------------------------- C5
\* The first directive of ds whose label starts with test_ is not test_url.
FirstTestIsNotUrl(ds) ==
    \E i \in Tests(ds) :
        /\ \A j \in Tests(ds) : i <= j
        /\ ds[i][1] # L_test_url

\* C5: load_testcases raises exactly when the first test_ directive of the
\* whole stream is not test_url, and never once a test_url directive has been
\* processed.
C5_TestsFailIffFirstTestNotUrl ==
    pc = "tests" =>
        /\ outcome # "none" => (outcome = "raised" <=> FirstTestIsNotUrl(stream(lines)))
        /\ outcome = "raised" => Labelled(directives, L_test_url) = {}

\* Witness of C5: load_testcases raised on a test_ directive that follows a
\* non-test directive, and the file goes on after it.
C5_Witness ==
    /\ pc = "tests"
    /\ outcome = "raised"
    /\ Len(directives) = 2
    /\ Len(stream(lines)) = 3
    /\ Labelled(stream(lines), L_test_url) = {3}

\* --------------------------------------------------------------------- C6
\* C6: when load_testcases returns, there is one record per test_url
\* directive, in file order, and the i-th record holds the content of the
\* i-th test_url directive under test_url.
C6_OneRecordPerTestUrl ==
    TestsReturned =>
        LET I == Sorted(Labelled(directives, L_test_url))
        IN  /\ Len(ret) = Len(I)
            /\ \A k \in 1..Len(I) :
                   /\ L_test_url \in DOMAIN ret[k]
                   /\ ret[k][L_test_url] = Str(directives[I[k]][2])

\* Witness of C6: a returned call with two test_url directives of different
\* contents and another test directive between them.
C6_Witness ==
    /\ TestsReturned
    /\ Len(ret) = 2
    /\ Len(directives) = 3
    /\ directives[1][2] # directives[3][2]
    /\ Labelled(directives, L_test_url) = {1, 3}

\* --------------------------------------------------------------------- C7
\* Index in ds of the test_url directive that opened the k-th record, and the
\* index just past the record's last directive.
Opened(ds, k) == Nth(Labelled(ds, L_test_url), k)
Closed(ds, k) ==
    IF k < Cardinality(Labelled(ds, L_test_url)) THEN Opened(ds, k + 1) ELSE Len(ds) + 1

\* Indexes of the directives of ds labelled label that belong to the k-th record.
Within(ds, k, label) ==
    {i \in Labelled(ds, label) : Opened(ds, k) < i /\ i < Closed(ds, k)}

\* The test_ labels other than test_url that occur in ds.
AuxLabels(ds) == {ds[i][1] : i \in {j \in Tests(ds) : ds[j][1] # L_test_url}}

\* The records cs are the ones the stream ds describes: the k-th record has,
\* besides test_url, exactly the labels of the test directives between the
\* k-th test_url and the next, each with its contents in file order.
RecordsOf(cs, ds) ==
    /\ Len(cs) = Cardinality(Labelled(ds, L_test_url))
    /\ \A k \in 1..Len(cs) :
        /\ DOMAIN cs[k] \ {L_test_url} = {l \in AuxLabels(ds) : Within(ds, k, l) # {}}
        /\ \A l \in DOMAIN cs[k] \ {L_test_url} :
               LET I == Sorted(Within(ds, k, l))
               IN  cs[k][l] = List([n \in 1..Len(I) |-> Str(ds[I[n]][2])])

\* C7: every step of load_testcases leaves the records opened before the
\* current one as they were, and leaves every record holding, per label, the
\* contents of the test directives that follow its own test_url and precede
\* the next one, in file order.
C7_DirectivesGoToOpenRecord ==
    [][(pc = "tests" /\ outcome' # "raised") =>
          /\ Len(cases') >= Len(cases)
          /\ \A k \in 1..Len(cases) : (k < Len(cases') => cases'[k] = cases[k])
          /\ RecordsOf(cases', directives')]_vars

\* Witness of C7: two records with a list under the same label each, the
\* first holding only the content that came before the second test_url.
C7_Witness ==
    /\ pc = "tests"
    /\ Len(cases) = 2
    /\ Len(directives) = 4
    /\ DOMAIN cases[1] = {L_test_url, L_test_contains}
    /\ DOMAIN cases[2] = {L_test_url, L_test_contains}
    /\ cases[1][L_test_contains] = List(<<Str(<<"b">>)>>)
    /\ cases[2][L_test_contains] = List(<<Str(<<"a">>)>>)

\* --------------------------------------------------------------------- C8
\* C8: when load_rules returns, prune is a key exactly when the stream has a
\* prune directive, and its value is True when the last prune directive says
\* "yes", False when it says "no".
C8_LastPruneWins ==
    RulesReturned =>
        LET I == Labelled(directives, L_prune)
        IN  /\ L_prune \in DOMAIN ret <=> I # {}
            /\ I # {} =>
                /\ directives[Last(I)][2] = S_yes => ret[L_prune] = Bool(TRUE)
                /\ directives[Last(I)][2] = S_no => ret[L_prune] = Bool(FALSE)
                /\ directives[Last(I)][2] \in {S_yes, S_no}

\* Witness of C8: a returned call whose stream says prune: yes and later
\* prune: no.
C8_Witness ==
    /\ RulesReturned
    /\ \E i, j \in Labelled(directives, L_prune) :
           i < j /\ directives[i][2] = S_yes /\ directives[j][2] = S_no
    /\ ret[L_prune] = Bool(FALSE)

\* --------------------------------------------------------------------- C9
\* Indexes of the boolean-property directives of ds whose content is neither
\* "yes" nor "no".
InvalidBooleans(ds) ==
    {i \in 1..Len(ds) : ds[i][1] \in boolean_props /\ ds[i][2] \notin {S_yes, S_no}}

\* C9: a finished load_rules call has raised whenever the stream of the file
\* has a boolean-property directive whose content is neither "yes" nor "no".
C9_InvalidBooleanRaises ==
    (pc = "rules" /\ outcome # "none" /\ InvalidBooleans(stream(lines)) # {})
        => outcome = "raised"

\* Witness of C9: load_rules raised on an invalid prune directive that stands
\* after a valid one, with a valid one following in the file.
C9_Witness ==
    /\ pc = "rules"
    /\ outcome = "raised"
    /\ InvalidBooleans(stream(lines)) = {2}
    /\ Labelled(stream(lines), L_prune) = {1, 2, 3}
    /\ Len(directives) = 2

\* -------------------------------------------------------------------- C10
\* The labels of ds that load_rules stores as plain lists.
ListLabels(ds) ==
    {ds[i][1] : i \in {j \in 1..Len(ds) :
        /\ ~startswith(ds[j][1], P_test_)
        /\ ds[j][1] \notin {L_find_string, L_replace_string}
        /\ ds[j][1] \notin boolean_props}}

\* C10 (as claimed): when load_rules returns, the list under every label of
\* the stream that is not test_-prefixed, find_string, replace_string or a
\* boolean property is exactly the contents of the directives with that
\* label, in file order, repeats kept.
C10_ListsHoldContentsInOrder ==
    RulesReturned =>
        \A l \in ListLabels(directives) :
            /\ l \in DOMAIN ret
            /\ LET I == Sorted(Labelled(directives, l))
               IN  /\ Len(ret[l].v) = Len(I)
                   /\ \A n \in 1..Len(I) : ret[l].v[n] = Str(directives[I[n]][2])

\* -------------------------------------------------------------------- C11
\* What the finished call came to: its outcome and, when it returned, its value.
CallResult == [outcome |-> outcome, value |-> IF outcome = "returned" THEN ret ELSE None]

\* The directives of ds whose label does not start with test_.
NoTests(ds) == SelectSeq(ds, LAMBDA d : ~startswith(d[1], P_test_))

\* C11: a finished load_rules call comes to what load_rules comes to on the
\* stream of the file with every test_ directive removed; the mapping it
\* returns has no key starting with test_; and it never raises on a test_
\* directive.
C11_RulesIgnoreTestDirectives ==
    (pc = "rules" /\ outcome # "none") =>
        /\ CallResult = load_rules_of(NoTests(stream(lines)))
        /\ outcome = "returned" => \A k \in DOMAIN ret : ~startswith(k, P_test_)
        /\ outcome = "raised" => ~startswith(directives[Len(directives)][1], P_test_)

\* Witness of C11: a returned call whose stream starts with a test_contains
\* directive, before any test_url, and goes on with a strip directive and a
\* test_url directive; only strip is stored.
C11_Witness ==
    /\ RulesReturned
    /\ Len(directives) = 3
    /\ directives[1][1] = L_test_contains
    /\ directives[2][1] = L_strip
    /\ directives[3][1] = L_test_url
    /\ DOMAIN ret = {L_strip}

\* -------------------------------------------------------------------- C12
\* The directives of ds whose label starts with test_.
OnlyTests(ds) == SelectSeq(ds, LAMBDA d : startswith(d[1], P_test_))

\* C12: a finished load_testcases call comes to what load_testcases comes to
\* on the stream of the file with every non-test directive removed; it never
\* raises on a non-test directive, and it returns on a file that makes
\* load_rules raise unless the first test_ directive is not test_url.
C12_TestsIgnoreOtherDirectives ==
    (pc = "tests" /\ outcome # "none") =>
        /\ CallResult = load_testcases_of(OnlyTests(stream(lines)))
        /\ outcome = "raised" => startswith(directives[Len(directives)][1], P_test_)
        /\ (/\ load_rules_of(stream(lines)).outcome = "raised"
            /\ ~FirstTestIsNotUrl(stream(lines))) => outcome = "returned"

\* Witness of C12: load_testcases returned one record on a file that starts
\* with a replace_string directive no find_string precedes and also holds a
\* prune directive that says neither yes nor no.
C12_Witness ==
    /\ TestsReturned
    /\ Len(directives) = 4
    /\ directives[1][1] = L_replace_string
    /\ directives[2][1] = L_test_url
    /\ directives[3] = <<L_prune, <<"a">>>>
    /\ directives[4][1] = L_test_contains
    /\ load_rules_of(directives).outcome = "raised"
    /\ Len(ret) = 1
    /\ DOMAIN ret[1] = {L_test_url, L_test_contains}

\* -------------------------------------------------------------------- C13
\* r is s without its leading and trailing whitespace.
IsTrimOf(r, s) ==
    \E i \in 1..(Len(s) + 1) : \E j \in 0..Len(s) :
        /\ r = SubSeq(s, i, j)
        /\ \A k \in 1..(i - 1) : s[k] \in Whitespace
        /\ \A k \in (j + 1)..Len(s) : s[k] \in Whitespace
        /\ r # <<>> => (r[1] \notin Whitespace /\ r[Len(r)] \notin Whitespace)

\* The directive d is the line t split at its first ":" and cut at its first
\* "#": the label is the trimmed text before the first ":", the content the
\* trimmed text between the first ":" and the first "#" (or the end of t).
SplitAtFirstColon(d, t) ==
    LET colon == FirstIdx(t, {":"})
        hash == FirstIdx(t, {"#"})
    IN  /\ colon <= Len(t)
        /\ colon < hash
        /\ IsTrimOf(d[1], SubSeq(t, 1, colon - 1))
        /\ IsTrimOf(d[2], SubSeq(t, colon + 1, hash - 1))
        /\ \A k \in 1..Len(d[2]) : d[2][k] # "#"

\* C13: every directive the tokenizer yields is its line split at the first
\* ":" only and cut at the first "#": later ":" stay in the content and no
\* comment text does.
C13_SplitAtFirstColonOnly ==
    [][Len(directives') = Len(directives) + 1 =>
          SplitAtFirstColon(directives'[Len(directives')], lines[pos])]_vars

\* Witness of C13: the line "a::a#" has given the label "a" and the content
\* ":a".
C13_Witness ==
    /\ pc = "parse"
    /\ lines = << <<"a", ":", ":", "a", "#">> >>
    /\ directives = << << <<"a">>, <<":", "a">> >> >>

\* -------------------------------------------------------------------- C14
\* The line t is empty, has no ":", or has a "#" before its first ":".
Dropped(t) ==
    \/ t = <<>>
    \/ FirstIdx(t, {":"}) > Len(t)
    \/ FirstIdx(t, {"#"}) < FirstIdx(t, {":"})

C15_RecordShape ==
    TestsReturned =>
        \A k \in 1..Len(ret) :
            /\ L_test_url \in DOMAIN ret[k]
            /\ ret[k][L_test_url].t = "str"
            /\ \A l \in DOMAIN ret[k] \ {L_test_url} :
                   startswith(l, P_test_) /\ ListOf(ret[k][l], "str")

\* Witness of C15: a returned record with test_url and two more keys, one of
\* them with a list of two contents, in a file that also has non-test
\* directives.
C15_Witness ==
    /\ TestsReturned
    /\ Len(ret) = 1
    /\ DOMAIN ret[1] = {L_test_url, L_test_contains, P_test_}
    /\ Len(ret[1][L_test_contains].v) = 2

\* -------------------------------------------------------------------- C16
\* Indexes of the directives of ds that load_rules rejects: a replace_string
\* with no find_string value to use, a boolean property that says neither yes
\* nor no.
RulesViolations(ds) ==
    {i \in Labelled(ds, L_replace_string) :
        \/ {j \in Labelled(ds, L_find_string) : j < i} = {}
        \/ LastFind(ds, i) = <<>>}
    \cup InvalidBooleans(ds)

\* Indexes of the directives of ds that load_testcases rejects: a test_
\* directive other than test_url with no test_url before it.
TestsViolations(ds) ==
    {i \in Tests(ds) :
        /\ ds[i][1] # L_test_url
        /\ {j \in Labelled(ds, L_test_url) : j < i} = {}}

\* The directives the running function rejects in ds.
Violations(ds) == IF pc = "rules" THEN RulesViolations(ds) ELSE TestsViolations(ds)

\* C16: the step on which load_rules or load_testcases raises takes the
\* first directive of the file's stream the function rejects and hands no
\* value back, and nothing of the call moves after it: no further line is
\* taken, no directive yielded, no local changed.
C16_RaiseStopsTheCall ==
    [][/\ (outcome = "none" /\ outcome' = "raised") =>
            /\ Violations(stream(lines)) # {}
            /\ \A i \in Violations(stream(lines)) : Len(directives') <= i
            /\ Len(directives') \in Violations(stream(lines))
            /\ ret' = ret
       /\ (outcome = "raised" /\ pc # "idle") =>
            UNCHANGED <<lines, pos, directives, find_string, rules, cases, outcome, ret>>]_vars

\* Witness of C16: the first call, load_rules, has stored a strip directive
\* and then raised on the second directive; the caller has moved on and no
\* value was handed back.
C16_Witness ==
    /\ Len(done) = 1
    /\ done[1].fn = "rules"
    /\ done[1].outcome = "raised"
    /\ done[1].value = None
    /\ Len(done[1].directives) = 2
    /\ pc = "idle"
    /\ DOMAIN rules = {L_strip}
    /\ ret = <<>>

\* -------------------------------------------------------------------- C17
\* C17: a finished call comes to the same outcome and value as every earlier
\* call of the same function that read the same text; and nothing of an
\* earlier call helps it: load_rules raises when its own stream has a
\* replace_string with no find_string before it, load_testcases raises when
\* the first test_ directive of its own stream is not test_url.
C17_CallsShareNoState ==
    Finished =>
        /\ \A n \in 1..Len(done) :
               (done[n].fn = pc /\ done[n].read = lines) =>
                   /\ done[n].outcome = outcome
                   /\ done[n].value = CallResult.value
        /\ (/\ pc = "rules"
            /\ \E i \in Labelled(stream(lines), L_replace_string) :
                   {j \in Labelled(stream(lines), L_find_string) : j < i} = {})
               => outcome = "raised"
        /\ (pc = "tests" /\ FirstTestIsNotUrl(stream(lines))) => outcome = "raised"

\* Witness of C17: load_rules returned a mapping with a find_replace list,
\* and a second load_rules call, on a second file object over the same text,
\* has returned too.
C17_Witness ==
    /\ Len(done) = 1
    /\ done[1].fn = "rules"
    /\ done[1].outcome = "returned"
    /\ ~done[1].same_file
    /\ done[1].read = lines
    /\ RulesReturned
    /\ K_find_replace \in DOMAIN ret

\* -------------------------------------------------------------------- C18
\* C18 (as claimed): a complete pass over a source that an earlier call has
\* already passed over completely is given the same directive sequence as
\* that earlier pass.
C18_SecondPassSameDirectives ==
    (/\ Finished
     /\ outcome = "returned"
     /\ done # <<>>
     /\ done[Len(done)].same_file
     /\ done[Len(done)].outcome = "returned")
        => directives = done[Len(done)].directives

\* -------------------------------------------------------------------- C19
\* The value x is not an empty list.
NotEmptyList(x) == x.t = "list" => x.v # <<>>

\* C19: in the mapping load_rules returns and in every record
\* load_testcases returns, no key holds an empty list and every key was
\* given a value by a directive: find_replace by a replace_string (or
\* find_replace) directive, any other key by a directive of that label;
\* find_string and replace_string are no keys; and load_rules never raises on
\* a find_string directive.
C19_KeysOnlyFromDirectives ==
    /\ RulesReturned =>
           \A k \in DOMAIN ret :
               /\ NotEmptyList(ret[k])
               /\ k \notin {L_find_string, L_replace_string}
               /\ \/ Labelled(directives, k) # {}
                  \/ k = K_find_replace /\ Labelled(directives, L_replace_string) # {}
    /\ TestsReturned =>
           \A n \in 1..Len(ret) : \A k \in DOMAIN ret[n] :
               /\ NotEmptyList(ret[n][k])
               /\ Labelled(directives, k) # {}
    /\ (pc = "rules" /\ outcome = "raised") =>
           directives[Len(directives)][1] # L_find_string

\* Witness of C19: load_rules returned only the strip list on a stream that
\* ends with a find_string directive no replace_string follows.
C19_Witness ==
    /\ RulesReturned
    /\ Len(directives) = 2
    /\ directives[1][1] = L_strip
    /\ directives[2][1] = L_find_string
    /\ DOMAIN ret = {L_strip}

====
